---- MODULE Spec2Model ----
(***************************************************************************)
(* Model of the AI Terraform Agent (src/ai_terraform_agent/main.py):       *)
(* the instruction parser (KAgent), the artifact generator                 *)
(* (TerraformGenerator), the generate endpoint (generate_terraform) and    *)
(* the remote publishing workflow (deploy_to_github over GitHubManager).   *)
(*                                                                         *)
(* Text is modelled as a sequence of one-character strings, so that        *)
(* lower(), split(), replace() and substring tests are computed and not    *)
(* assumed.                                                                *)
(***************************************************************************)
EXTENDS Integers, Sequences, FiniteSets, TLC

(***************************************************************************)
(* Bounds of the model.                                                    *)
(***************************************************************************)
\* longest instruction, in words, fed to the parser on its own
MaxWords == 2
\* the wall clock runs from 0 to MaxClock seconds
MaxClock == 2
\* calls of the generator on its own
MaxCalls == 2

(***************************************************************************)
(* Python str operations.                                                  *)
(***************************************************************************)
Uppers == << "A", "B", "C", "D", "E", "F", "G", "H", "I", "J", "K", "L", "M",
             "N", "O", "P", "Q", "R", "S", "T", "U", "V", "W", "X", "Y", "Z" >>
Lowers == << "a", "b", "c", "d", "e", "f", "g", "h", "i", "j", "k", "l", "m",
             "n", "o", "p", "q", "r", "s", "t", "u", "v", "w", "x", "y", "z" >>
Digits == << "0", "1", "2", "3", "4", "5", "6", "7", "8", "9" >>

Range(f) == { f[i] : i \in DOMAIN f }

IsDigit(c)  == c \in Range(Digits)
IsSpace(c)  == c = " "

\* str.lower() on one character
LowerChar(c) ==
    IF c \in Range(Uppers)
    THEN Lowers[CHOOSE i \in DOMAIN Uppers : Uppers[i] = c]
    ELSE c

\* str.lower()
lower(s) == [ i \in DOMAIN s |-> LowerChar(s[i]) ]

\* k in s
Contains(s, k) ==
    \E i \in 1 .. (Len(s) - Len(k) + 1) : SubSeq(s, i, i + Len(k) - 1) = k

\* any(keyword in s for keyword in ks)
ContainsAny(s, ks) == \E k \in ks : Contains(s, k)

\* str.replace(a, b) for one-character a and b
replace(s, a, b) == [ i \in DOMAIN s |-> IF s[i] = a THEN b ELSE s[i] ]

\* str.split(): the maximal runs of non-whitespace characters, left to right
RECURSIVE split(_)
split(s) ==
    IF s = << >> THEN << >>
    ELSE IF IsSpace(Head(s)) THEN split(Tail(s))
    ELSE LET stops == { i \in 1 .. Len(s) : IsSpace(s[i]) }
             end   == IF stops = {} THEN Len(s) + 1
                      ELSE CHOOSE i \in stops : \A j \in stops : i <= j
         IN  << SubSeq(s, 1, end - 1) >> \o split(SubSeq(s, end, Len(s)))

\* " ".join(ws)
RECURSIVE join(_)
join(ws) ==
    IF ws = << >> THEN << >>
    ELSE IF Len(ws) = 1 THEN ws[1]
    ELSE ws[1] \o << " " >> \o join(Tail(ws))

\* int(s) for a run of decimal digits
DigitValue(c) == (CHOOSE i \in DOMAIN Digits : Digits[i] = c) - 1
RECURSIVE int(_)
int(s) ==
    IF s = << >> THEN 0
    ELSE 10 * int(SubSeq(s, 1, Len(s) - 1)) + DigitValue(s[Len(s)])

\* the character at position i of s, "" past either end
At(s, i) == IF i \in 1 .. Len(s) THEN s[i] ELSE ""

\* last position of the maximal run of digits that starts at i
RunEnd(s, i) ==
    CHOOSE e \in i .. Len(s) :
        /\ \A j \in i .. e : IsDigit(s[j])
        /\ ~ IsDigit(At(s, e + 1))

\* first position at or after i that holds no whitespace
SkipSpace(s, i) ==
    CHOOSE e \in i .. (Len(s) + 1) :
        /\ \A j \in i .. (e - 1) : IsSpace(s[j])
        /\ ~ IsSpace(At(s, e))

\* datetime.now().strftime("%Y%m%d%H%M%S") when the clock shows second t
strftime(t) ==
    << "2", "0", "2", "4", "0", "1", "0", "1", "1", "2", "0", "0" >> \o << Digits[(t \div 10) + 1], Digits[(t % 10) + 1] >>

(***************************************************************************)
(* KAgent: the instruction parser.                                         *)
(***************************************************************************)
VM_KEYWORDS ==
    { << "v", "m" >>,
      << "i", "n", "s", "t", "a", "n", "c", "e" >>,
      << "c", "o", "m", "p", "u", "t", "e" >>,
      << "s", "e", "r", "v", "e", "r" >> }
STORAGE_KEYWORDS ==
    { << "b", "u", "c", "k", "e", "t" >>,
      << "s", "t", "o", "r", "a", "g", "e" >>,
      << "b", "l", "o", "b" >> }
NETWORK_KEYWORDS ==
    { << "n", "e", "t", "w", "o", "r", "k" >>,
      << "v", "p", "c" >>,
      << "s", "u", "b", "n", "e", "t" >> }

W_named    == << "n", "a", "m", "e", "d" >>
W_called   == << "c", "a", "l", "l", "e", "d" >>
W_large    == << "l", "a", "r", "g", "e" >>
W_small    == << "s", "m", "a", "l", "l" >>
W_medium   == << "m", "e", "d", "i", "u", "m" >>
W_ubuntu   == << "u", "b", "u", "n", "t", "u" >>
W_centos   == << "c", "e", "n", "t", "o", "s" >>
W_windows  == << "w", "i", "n", "d", "o", "w", "s" >>
W_ssh      == << "s", "s", "h" >>
W_web      == << "w", "e", "b" >>
W_http     == << "h", "t", "t", "p" >>
W_database == << "d", "a", "t", "a", "b", "a", "s", "e" >>
W_europe   == << "e", "u", "r", "o", "p", "e" >>
W_asia     == << "a", "s", "i", "a" >>
W_version  == << "v", "e", "r", "s", "i", "o", "n" >>
W_gb       == << "g", "b" >>
W_tb       == << "t", "b" >>

DEFAULT_RESOURCE_NAME == << "m", "a", "i", "n", "_", "r", "e", "s", "o", "u", "r", "c", "e" >>
DEFAULT_VM_NAME       == << "v", "m", "-", "i", "n", "s", "t", "a", "n", "c", "e" >>
DEFAULT_BUCKET_NAME   == << "s", "t", "o", "r", "a", "g", "e", "-", "b", "u", "c", "k", "e", "t" >>
DEFAULT_NETWORK_NAME  == << "v", "p", "c", "-", "n", "e", "t", "w", "o", "r", "k" >>
DEFAULT_CIDR          == << "1", "0", ".", "0", ".", "0", ".", "0", "/", "2", "4" >>

\* as _extract_name, but the token after the marker is taken as typed
_extract_name_keep_case(instruction, default, t) ==
    LET words == split(instruction)
        hits  == { i \in 1 .. Len(words) :
                     /\ lower(words[i]) \in { W_named, W_called }
                     /\ i + 1 <= Len(words) }
    IN  IF hits # {}
        THEN LET i == CHOOSE h \in hits : \A g \in hits : h <= g
             IN  replace(words[i + 1], " ", "-")
        ELSE default \o << "-" >> \o strftime(t)

\* KAgent._extract_name; t is the clock reading of its own datetime.now()
_extract_name(instruction, default, t) ==
    LET words == split(instruction)
        hits  == { i \in 1 .. Len(words) :
                     /\ lower(words[i]) \in { W_named, W_called }
                     /\ i + 1 <= Len(words) }
    IN  IF hits # {}
        THEN LET i == CHOOSE h \in hits : \A g \in hits : h <= g
             IN  replace(lower(words[i + 1]), " ", "-")
        ELSE default \o << "-" >> \o strftime(t)

\* KAgent._extract_machine_type
_extract_machine_type(instruction) ==
    IF Contains(lower(instruction), W_large) THEN "e2-standard-4"
    ELSE IF Contains(lower(instruction), W_small) THEN "e2-micro"
    ELSE IF Contains(lower(instruction), W_medium) THEN "e2-standard-2"
    ELSE "e2-micro"

\* KAgent._extract_image
_extract_image(instruction) ==
    LET instruction_lower == lower(instruction)
    IN  IF Contains(instruction_lower, W_ubuntu) THEN "ubuntu-os-cloud/ubuntu-2004-lts"
        ELSE IF Contains(instruction_lower, W_centos) THEN "centos-cloud/centos-7"
        ELSE IF Contains(instruction_lower, W_windows)
             THEN "windows-cloud/windows-server-2019-dc-v20231114"
        ELSE "debian-cloud/debian-11"

\* the two characters of s from position i on, fewer at the end of s
TwoAt(s, i) == SubSeq(s, i, IF i + 1 > Len(s) THEN Len(s) ELSE i + 1)

\* re.search(r'(\d+)\s*(gb|tb)', s): the leftmost start of a match, 0 if none
DiskMatchStart(s) ==
    LET unitAt(i) == TwoAt(s, i)
        starts == { i \in 1 .. Len(s) :
                      /\ IsDigit(s[i])
                      /\ unitAt(SkipSpace(s, RunEnd(s, i) + 1)) \in { W_gb, W_tb } }
    IN  IF starts = {} THEN 0 ELSE CHOOSE i \in starts : \A j \in starts : i <= j

\* as _extract_disk_size, but the unit is not looked at
_extract_disk_size_gb_only(instruction) ==
    LET s == lower(instruction)
        i == DiskMatchStart(s)
    IN  IF i # 0 THEN int(SubSeq(s, i, RunEnd(s, i))) ELSE 20

\* KAgent._extract_disk_size
_extract_disk_size(instruction) ==
    LET s == lower(instruction)
        i == DiskMatchStart(s)
    IN  IF i # 0
        THEN LET size == int(SubSeq(s, i, RunEnd(s, i)))
                 u    == SkipSpace(s, RunEnd(s, i) + 1)
                 unit == TwoAt(s, u)
             IN  IF unit = W_tb THEN size * 1024 ELSE size
        ELSE 20

\* KAgent._extract_metadata
_extract_metadata(instruction) ==
    IF Contains(lower(instruction), W_ssh)
    THEN "enable-oslogin = \"true\""
    ELSE "startup-script = \"#!/bin/bash\\necho Hello World from Terraform Agent\""

\* KAgent._extract_tags
_extract_tags(instruction) ==
    IF Contains(lower(instruction), W_web)
    THEN "[\"terraform-managed\", \"http-server\", \"https-server\"]"
    ELSE "[\"terraform-managed\"]"

\* KAgent._extract_location
_extract_location(instruction) ==
    IF Contains(lower(instruction), W_europe) THEN "EU"
    ELSE IF Contains(lower(instruction), W_asia) THEN "ASIA"
    ELSE "US"

\* KAgent._extract_versioning
_extract_versioning(instruction) ==
    IF Contains(lower(instruction), W_version) THEN "true" ELSE "false"

\* end of the match of \d+\.\d+\.\d+\.\d+/\d+ that starts at i, 0 if none
CidrMatchEnd(s, i) ==
    LET dotted(e) == At(s, e + 1) = "." /\ IsDigit(At(s, e + 2))
    IN  IF ~ IsDigit(At(s, i)) THEN 0
        ELSE LET e1 == RunEnd(s, i)
             IN  IF ~ dotted(e1) THEN 0
                 ELSE LET e2 == RunEnd(s, e1 + 2)
                      IN  IF ~ dotted(e2) THEN 0
                          ELSE LET e3 == RunEnd(s, e2 + 2)
                               IN  IF ~ dotted(e3) THEN 0
                                   ELSE LET e4 == RunEnd(s, e3 + 2)
                                        IN  IF At(s, e4 + 1) = "/" /\ IsDigit(At(s, e4 + 2))
                                            THEN RunEnd(s, e4 + 2)
                                            ELSE 0

\* KAgent._extract_cidr: the search is on the instruction as typed
_extract_cidr(instruction) ==
    LET starts == { i \in 1 .. Len(instruction) : CidrMatchEnd(instruction, i) # 0 }
    IN  IF starts = {} THEN DEFAULT_CIDR
        ELSE LET i == CHOOSE h \in starts : \A g \in starts : h <= g
             IN  SubSeq(instruction, i, CidrMatchEnd(instruction, i))

\* KAgent._extract_ports; the list stands for its json.dumps text
_extract_ports(instruction) ==
    << "22" >>
    \o (IF Contains(lower(instruction), W_web) \/ Contains(lower(instruction), W_http)
        THEN << "80", "443" >> ELSE << >>)
    \o (IF Contains(lower(instruction), W_database) THEN << "3306" >> ELSE << >>)

\* dict.update: the entries of new replace and extend those of config
update(config, new) == new @@ config

BASE_FIELDS ==
    { "resource_type", "resource_name", "environment", "region", "zone",
      "project_id", "timestamp", "instruction" }
VM_FIELDS == { "instance_name", "machine_type", "image", "disk_size", "metadata", "tags" }
STORAGE_FIELDS == { "bucket_name", "location", "versioning" }
NETWORK_FIELDS ==
    { "network_name", "auto_create_subnets", "cidr_range", "allowed_ports",
      "source_ranges", "target_tags" }

\* as DefaultConfig, but without the zone
DefaultConfig_no_zone(instruction, project, t0) ==
    [ resource_type |-> "unknown",
      resource_name |-> DEFAULT_RESOURCE_NAME,
      environment   |-> "dev",
      region        |-> "us-central1",
      project_id    |-> IF project # "" THEN project ELSE "your-project-id",
      timestamp     |-> strftime(t0),
      instruction   |-> instruction ]

\* parse_instruction, lines 195-204: the default values. project is
\* GCP_PROJECT_ID ("" when unset), t0 the clock reading of the timestamp field.
DefaultConfig(instruction, project, t0) ==
    [ resource_type |-> "unknown",
      resource_name |-> DEFAULT_RESOURCE_NAME,
      environment   |-> "dev",
      region        |-> "us-central1",
      zone          |-> "us-central1-a",
      project_id    |-> IF project # "" THEN project ELSE "your-project-id",
      timestamp     |-> strftime(t0),
      instruction   |-> instruction ]

\* as ClassifyInto, but the storage keywords are looked for first
ClassifyInto_storage_first(config, instruction, instruction_lower, t1) ==
    IF ContainsAny(instruction_lower, STORAGE_KEYWORDS)
    THEN update(config,
           [ resource_type |-> "gcp_storage",
             bucket_name   |-> _extract_name(instruction, DEFAULT_BUCKET_NAME, t1),
             location      |-> _extract_location(instruction),
             versioning    |-> _extract_versioning(instruction) ])
    ELSE IF ContainsAny(instruction_lower, VM_KEYWORDS)
    THEN update(config,
           [ resource_type |-> "gcp_vm",
             instance_name |-> _extract_name(instruction, DEFAULT_VM_NAME, t1),
             machine_type  |-> _extract_machine_type(instruction),
             image         |-> _extract_image(instruction),
             disk_size     |-> _extract_disk_size(instruction),
             metadata      |-> _extract_metadata(instruction),
             tags          |-> _extract_tags(instruction) ])
    ELSE IF ContainsAny(instruction_lower, NETWORK_KEYWORDS)
    THEN update(config,
           [ resource_type       |-> "gcp_network",
             network_name        |-> _extract_name(instruction, DEFAULT_NETWORK_NAME, t1),
             auto_create_subnets |-> "false",
             cidr_range          |-> _extract_cidr(instruction),
             allowed_ports       |-> _extract_ports(instruction),
             source_ranges       |-> "[\"0.0.0.0/0\"]",
             target_tags         |-> "[\"web-server\"]" ])
    ELSE config

\* parse_instruction, lines 206-237: the if/elif chain over the keyword lists.
\* t1 is the clock reading made by _extract_name.
ClassifyInto(config, instruction, instruction_lower, t1) ==
    IF ContainsAny(instruction_lower, VM_KEYWORDS)
    THEN update(config,
           [ resource_type |-> "gcp_vm",
             instance_name |-> _extract_name(instruction, DEFAULT_VM_NAME, t1),
             machine_type  |-> _extract_machine_type(instruction),
             image         |-> _extract_image(instruction),
             disk_size     |-> _extract_disk_size(instruction),
             metadata      |-> _extract_metadata(instruction),
             tags          |-> _extract_tags(instruction) ])
    ELSE IF ContainsAny(instruction_lower, STORAGE_KEYWORDS)
    THEN update(config,
           [ resource_type |-> "gcp_storage",
             bucket_name   |-> _extract_name(instruction, DEFAULT_BUCKET_NAME, t1),
             location      |-> _extract_location(instruction),
             versioning    |-> _extract_versioning(instruction) ])
    ELSE IF ContainsAny(instruction_lower, NETWORK_KEYWORDS)
    THEN update(config,
           [ resource_type       |-> "gcp_network",
             network_name        |-> _extract_name(instruction, DEFAULT_NETWORK_NAME, t1),
             auto_create_subnets |-> "false",
             cidr_range          |-> _extract_cidr(instruction),
             allowed_ports       |-> _extract_ports(instruction),
             source_ranges       |-> "[\"0.0.0.0/0\"]",
             target_tags         |-> "[\"web-server\"]" ])
    ELSE config

\* parse_instruction, lines 239-245: resource_name from the display name
SetResourceName(config) ==
    IF config.resource_type = "gcp_vm"
    THEN [ config EXCEPT !.resource_name = replace(config.instance_name, "-", "_") ]
    ELSE IF config.resource_type = "gcp_storage"
    THEN [ config EXCEPT !.resource_name = replace(config.bucket_name, "-", "_") ]
    ELSE IF config.resource_type = "gcp_network"
    THEN [ config EXCEPT !.resource_name = replace(config.network_name, "-", "_") ]
    ELSE config

\* KAgent.parse_instruction
parse_instruction(instruction, project, t0, t1) ==
    SetResourceName(ClassifyInto(DefaultConfig(instruction, project, t0),
                                 instruction, lower(instruction), t1))

(***************************************************************************)
(* TERRAFORM_TEMPLATES and TerraformGenerator.                             *)
(***************************************************************************)
\* the replacement fields each template of TERRAFORM_TEMPLATES refers to
TERRAFORM_TEMPLATES ==
    [ gcp_vm      |-> { "instruction", "resource_name", "instance_name", "machine_type",
                        "zone", "image", "disk_size", "metadata", "tags", "environment",
                        "timestamp" },
      gcp_storage |-> { "instruction", "resource_name", "bucket_name", "location",
                        "versioning", "environment", "timestamp" },
      gcp_network |-> { "instruction", "resource_name", "network_name",
                        "auto_create_subnets", "cidr_range", "region", "allowed_ports",
                        "source_ranges", "target_tags" },
      provider    |-> { "project_id", "region", "zone" } ]

\* the text a template becomes: the template and the values filled into it
Rendered(template, config, fields) ==
    [ template |-> template, values |-> [ f \in fields |-> config[f] ] ]

\* str.format(**config) succeeds only when every referenced field is a key
CanFormat(template, config) == TERRAFORM_TEMPLATES[template] \subseteq DOMAIN config

NOT_AVAILABLE == << "N", "/", "A" >>

\* TerraformGenerator._generate_variables
_generate_variables(config) ==
    Rendered("variables", config, { "resource_type", "project_id", "region", "environment" })

\* TerraformGenerator._generate_tfvars
_generate_tfvars(config) ==
    Rendered("tfvars", config, { "project_id", "region", "environment" })

\* TerraformGenerator._generate_readme; t is the clock reading of its datetime.now()
_generate_readme(config, t) ==
    [ template     |-> "readme",
      values       |-> [ f \in { "resource_type", "environment", "region" } |-> config[f] ],
      instruction  |-> IF "instruction" \in DOMAIN config
                       THEN config["instruction"] ELSE NOT_AVAILABLE,
      generated_on |-> t ]

\* the keys whose absence makes generate_files raise KeyError
REQUIRED_BY_HELPERS == { "resource_type", "project_id", "region", "environment" }

KeyError == [ ok |-> FALSE, files |-> << >> ]

\* as FileItems, but without the summary document
FileItems_no_readme(config, resource_type, t) ==
    << [ name    |-> "provider.tf",
         content |-> Rendered("provider", config, TERRAFORM_TEMPLATES["provider"]) ] >>
    \o (IF resource_type \in DOMAIN TERRAFORM_TEMPLATES
        THEN << [ name    |-> "main.tf",
                  content |-> Rendered(resource_type, config,
                                       TERRAFORM_TEMPLATES[resource_type]) ] >>
        ELSE << >>)
    \o << [ name |-> "variables.tf", content |-> _generate_variables(config) ],
          [ name |-> "terraform.tfvars", content |-> _generate_tfvars(config) ] >>

\* the items generate_files builds when no lookup fails, in insertion order
FileItems(config, resource_type, t) ==
    << [ name    |-> "provider.tf",
         content |-> Rendered("provider", config, TERRAFORM_TEMPLATES["provider"]) ] >>
    \o (IF resource_type \in DOMAIN TERRAFORM_TEMPLATES
        THEN << [ name    |-> "main.tf",
                  content |-> Rendered(resource_type, config,
                                       TERRAFORM_TEMPLATES[resource_type]) ] >>
        ELSE << >>)
    \o << [ name |-> "variables.tf", content |-> _generate_variables(config) ],
          [ name |-> "terraform.tfvars", content |-> _generate_tfvars(config) ],
          [ name |-> "README.md", content |-> _generate_readme(config, t) ] >>

\* as generate_files, but a resource_type without a template is an error
generate_files_known_only(config, t) ==
    IF ~ CanFormat("provider", config) \/ "resource_type" \notin DOMAIN config
    THEN KeyError
    ELSE IF \/ config["resource_type"] \notin DOMAIN TERRAFORM_TEMPLATES
            \/ ~ CanFormat(config["resource_type"], config)
            \/ ~ (REQUIRED_BY_HELPERS \subseteq DOMAIN config)
    THEN KeyError
    ELSE [ ok |-> TRUE, files |-> FileItems(config, config["resource_type"], t) ]

\* TerraformGenerator.generate_files: the dict as its items in insertion order,
\* or KeyError when a lookup or a format call fails
generate_files(config, t) ==
    IF ~ CanFormat("provider", config) \/ "resource_type" \notin DOMAIN config
    THEN KeyError
    ELSE IF \/ /\ config["resource_type"] \in DOMAIN TERRAFORM_TEMPLATES
               /\ ~ CanFormat(config["resource_type"], config)
            \/ ~ (REQUIRED_BY_HELPERS \subseteq DOMAIN config)
    THEN KeyError
    ELSE [ ok |-> TRUE, files |-> FileItems(config, config["resource_type"], t) ]

\* files.keys(), in order
FileNames(files) == [ i \in DOMAIN files |-> files[i].name ]

(***************************************************************************)
(* State.                                                                  *)
(***************************************************************************)
VARIABLES
    GITHUB_TOKEN,    \* TRUE when the environment sets a non-empty GITHUB_TOKEN
    GITHUB_OWNER,    \* TRUE when the environment sets a non-empty GITHUB_OWNER
    GCP_PROJECT_ID,  \* the project of the environment, "" when unset
    clock,           \* the wall clock, in seconds
    origin,          \* per caller: "none", "generate" or "direct"
    response,        \* per caller: the TerraformResponse of its generate request
    job,             \* per caller: the arguments of its deploy_to_github call
    pc,              \* per caller: where its deploy_to_github call stands
    idx,             \* per caller: position of commit_files in files.items()
    inflight,        \* per caller: the remote call awaited, NoCall if none
    calls,           \* per caller: the remote calls issued so far, in order
    logs,            \* per caller: the records its job has logged, in order
    closed,          \* per caller: how often GitHubManager.close has run
    refCreated,      \* per caller: the host answered 201 to its create-ref call
    written,         \* per caller: the paths whose write the host answered 201
    host,            \* the hosting service: refs, files and pull requests
    pIn,             \* the parser on its own: the instruction
    pOut,            \* the parser on its own: the description, NoDescription before
    gOut,            \* the generator on its own: its calls so far, in order
    answer,          \* per caller: the response its job received last
    req              \* per caller: its request and the description parsed from it

vars == << GITHUB_TOKEN, GITHUB_OWNER, GCP_PROJECT_ID, clock, origin, response, job,
           pc, idx, inflight, calls, logs, closed, refCreated, written, host, pIn, pOut, gOut, answer, req >>

\* the callers of one run: a PublishJob shares no state of the program with
\* another one (each deploy_to_github builds its own GitHubManager), so one
\* caller is followed against a host that other clients may have used before
Callers == { 1 }

(***************************************************************************)
(* Inputs.                                                                 *)
(***************************************************************************)
\* the environments the service is started in: nothing set, the token alone,
\* token and owner, and all three as in tests/__init__.py
ENVIRONMENTS ==
    { [ token |-> FALSE, owner |-> FALSE, project |-> "" ],
      [ token |-> FALSE, owner |-> TRUE,  project |-> "" ],
      [ token |-> TRUE,  owner |-> FALSE, project |-> "" ],
      [ token |-> TRUE,  owner |-> TRUE,  project |-> "" ],
      [ token |-> TRUE,  owner |-> TRUE,  project |-> "test-project" ] }

\* instructions of generate requests: one of the compute family without a name,
\* one of no family
SampleInstructions ==
    { << "w", "e", "b", " ", "s", "e", "r", "v", "e", "r" >>,
      << "d", "b" >> }

\* request.branch_name: None (the empty text) or a name of the caller
SampleBranchNames == { << >>, << "f", "x" >> }

\* branches the repository may hold before the run
SampleRefs == { << "f", "x" >> }

\* commit hashes the host may report
Shas == { "sha1", "sha2" }

(***************************************************************************)
(* Remote calls of GitHubManager.                                          *)
(***************************************************************************)
NoCall == [ op |-> "none", ref |-> << >>, sha |-> "", path |-> "", title |-> << >>,
            body |-> << >> ]

\* client.get(.../git/refs/heads/main)
GetMainRef == [ NoCall EXCEPT !.op = "GET_REF", !.ref = << "m", "a", "i", "n" >> ]

\* as PostRef, but the hash is a fixed one
PostRef_fixed_sha(branch_name, main_sha) ==
    [ NoCall EXCEPT !.op = "POST_REF", !.ref = branch_name, !.sha = "sha1" ]

\* client.post(.../git/refs, json={"ref": "refs/heads/<branch>", "sha": main_sha})
PostRef(branch_name, main_sha) ==
    [ NoCall EXCEPT !.op = "POST_REF", !.ref = branch_name, !.sha = main_sha ]

\* client.get(.../contents/<path>?ref=<branch>)
GetFile(branch_name, file_path) ==
    [ NoCall EXCEPT !.op = "GET_FILE", !.ref = branch_name, !.path = file_path ]

\* as PutFile, but file_data never has a hash
PutFile_no_sha(branch_name, file_path, sha) ==
    [ NoCall EXCEPT !.op = "PUT_FILE", !.ref = branch_name, !.path = file_path ]

\* client.put(.../contents/<path>, json=file_data); sha is "" when file_data has none
PutFile(branch_name, file_path, sha) ==
    [ NoCall EXCEPT !.op = "PUT_FILE", !.ref = branch_name, !.path = file_path,
                    !.sha = sha ]

\* client.post(.../pulls, json={"title", "body", "head": branch, "base": "main"})
PostPull(branch_name, title, body) ==
    [ NoCall EXCEPT !.op = "POST_PULL", !.ref = branch_name, !.title = title,
                    !.body = body ]

\* the entry a call leaves in the list of calls issued
CallEntry(c) == [ op |-> c.op, path |-> c.path ]

NoResponse == [ status |-> "none", success |-> FALSE, message |-> "",
                branch_name |-> << >>, pr_url |-> "", terraform_files |-> << >> ]

NoDescription == [ resource_type |-> "none" ]

NoJob == [ branch_name |-> << >>, files |-> << >>, instruction |-> << >>,
           config |-> NoDescription ]

\* the response to a call: its status, "raise" when the call raised, and the
\* hash its body carries, "" when it carries none
Received(call, status, sha) ==
    [ op |-> call.op, path |-> call.path, status |-> status, sha |-> sha ]

NoAnswer == Received(NoCall, "none", "")

\* TerraformRequest(instruction, branch_name) and config of generate_terraform
Handled(instruction, requested, config) ==
    [ instruction |-> instruction, branch_name |-> requested, config |-> config ]

NoRequest == Handled(<< >>, << >>, NoDescription)

Init ==
    /\ \E env \in ENVIRONMENTS :
         /\ GITHUB_TOKEN = env.token
         /\ GITHUB_OWNER = env.owner
         /\ GCP_PROJECT_ID = env.project
    /\ clock = 0
    /\ origin = [ r \in Callers |-> "none" ]
    /\ response = [ r \in Callers |-> NoResponse ]
    /\ job = [ r \in Callers |-> NoJob ]
    /\ pc = [ r \in Callers |-> "none" ]
    /\ idx = [ r \in Callers |-> 0 ]
    /\ inflight = [ r \in Callers |-> NoCall ]
    /\ calls = [ r \in Callers |-> << >> ]
    /\ logs = [ r \in Callers |-> << >> ]
    /\ closed = [ r \in Callers |-> 0 ]
    /\ refCreated = [ r \in Callers |-> FALSE ]
    /\ written = [ r \in Callers |-> {} ]
    /\ \E refs \in SUBSET SampleRefs : host = [ refs |-> refs, files |-> {}, pulls |-> {} ]
    /\ pIn = << >>
    /\ pOut = NoDescription
    /\ gOut = << >>
    /\ answer = [ r \in Callers |-> NoAnswer ]
    /\ req = [ r \in Callers |-> NoRequest ]

(***************************************************************************)
(* generate_terraform: the generate endpoint.                              *)
(***************************************************************************)
\* the text of a resource_type
TypeText(resource_type) ==
    CASE resource_type = "gcp_vm"      -> << "g", "c", "p", "_", "v", "m" >>
      [] resource_type = "gcp_storage" -> << "g", "c", "p", "_", "s", "t", "o", "r", "a", "g", "e" >>
      [] resource_type = "gcp_network" -> << "g", "c", "p", "_", "n", "e", "t", "w", "o", "r", "k" >>
      [] OTHER                         -> << "u", "n", "k", "n", "o", "w", "n" >>

\* as BranchNameFor, but the name of the caller is not looked at
BranchNameFor_always_derived(requested, config) ==
    << "t", "e", "r", "r", "a", "f", "o", "r", "m", "-" >> \o TypeText(config.resource_type) \o << "-" >>
    \o config.timestamp

\* request.branch_name or f"terraform-{config['resource_type']}-{config['timestamp']}"
BranchNameFor(requested, config) ==
    IF requested # << >> THEN requested
    ELSE << "t", "e", "r", "r", "a", "f", "o", "r", "m", "-" >> \o TypeText(config.resource_type) \o << "-" >>
         \o config.timestamp

\* as HostingConfigured, but the owner is not looked at
HostingConfigured_token_only == GITHUB_TOKEN

\* if GITHUB_TOKEN and GITHUB_OWNER
HostingConfigured == GITHUB_TOKEN /\ GITHUB_OWNER

MSG_IN_PROGRESS == "Terraform files generated successfully. GitHub deployment in progress."
MSG_NOT_CONFIGURED == "Terraform files generated successfully. (GitHub not configured)"

\* background_tasks.add_task(deploy_to_github, branch_name, files, instruction, config)
JobOf(branch_name, files, instruction, config) ==
    [ branch_name |-> branch_name, files |-> files, instruction |-> instruction,
      config |-> config ]

\* generate_terraform, lines 570-592: schedule the publisher when hosting is
\* configured and answer; a failed generation answers 500 and schedules nothing
Answer(r, instruction, config, branch_name, gen) ==
    IF gen.ok
    THEN /\ response' = [ response EXCEPT ![r] =
               [ status          |-> "200",
                 success         |-> TRUE,
                 message         |-> IF HostingConfigured THEN MSG_IN_PROGRESS
                                     ELSE MSG_NOT_CONFIGURED,
                 branch_name     |-> branch_name,
                 pr_url          |-> "",
                 terraform_files |-> gen.files ] ]
         /\ IF HostingConfigured
            THEN /\ job' = [ job EXCEPT ![r] =
                       JobOf(branch_name, gen.files, instruction, config) ]
                 /\ pc' = [ pc EXCEPT ![r] = "scheduled" ]
            ELSE UNCHANGED << job, pc >>
    ELSE /\ response' = [ response EXCEPT ![r] = [ NoResponse EXCEPT !.status = "500" ] ]
         /\ UNCHANGED << job, pc >>

\* generate_terraform, lines 564-568, on the parsed description
Generate(r, instruction, requested, config, t2) ==
    Answer(r, instruction, config, BranchNameFor(requested, config),
           generate_files(config, t2))

\* generate_terraform, for the request of caller r. t1 and t2 are the clock
\* readings of _extract_name and of _generate_readme.
generate_terraform(r) ==
    /\ origin[r] = "none"
    /\ \E instruction \in SampleInstructions, requested \in SampleBranchNames,
          t1 \in clock .. MaxClock :
         \E t2 \in t1 .. MaxClock :
            /\ Generate(r, instruction, requested,
                        parse_instruction(instruction, GCP_PROJECT_ID, clock, t1), t2)
            /\ req' = [ req EXCEPT ![r] =
                          Handled(instruction, requested,
                                  parse_instruction(instruction, GCP_PROJECT_ID, clock, t1)) ]
            /\ clock' = t2
    /\ origin' = [ origin EXCEPT ![r] = "generate" ]
    /\ UNCHANGED << GITHUB_TOKEN, GITHUB_OWNER, GCP_PROJECT_ID, idx, inflight, calls,
                    logs, closed, refCreated, written, host, pIn, pOut, gOut, answer >>

\* the arguments of a direct call: the files generated for config
DirectJob(instruction, config, gen) ==
    JobOf(<< "f", "x" >>, gen.files, instruction, config)

\* a caller other than the endpoint (a test) awaits deploy_to_github itself, on
\* the files generated for an instruction
direct_deploy(r) ==
    /\ origin[r] = "none"
    /\ \E instruction \in SampleInstructions :
         job' = [ job EXCEPT ![r] =
                    DirectJob(instruction,
                              parse_instruction(instruction, GCP_PROJECT_ID, clock, clock),
                              generate_files(parse_instruction(instruction, GCP_PROJECT_ID,
                                                               clock, clock), clock)) ]
    /\ origin' = [ origin EXCEPT ![r] = "direct" ]
    /\ pc' = [ pc EXCEPT ![r] = "scheduled" ]
    /\ UNCHANGED << GITHUB_TOKEN, GITHUB_OWNER, GCP_PROJECT_ID, clock, response, idx,
                    inflight, calls, logs, closed, refCreated, written, host, pIn, pOut, gOut, answer, req >>

\* time passes while a caller has yet to call
Tick ==
    /\ clock < MaxClock
    /\ \E r \in DOMAIN origin : origin[r] = "none"
    /\ clock' = clock + 1
    /\ UNCHANGED << GITHUB_TOKEN, GITHUB_OWNER, GCP_PROJECT_ID, origin, response, job,
                    pc, idx, inflight, calls, logs, closed, refCreated, written, host, pIn, pOut, gOut, answer, req >>

(***************************************************************************)
(* deploy_to_github over GitHubManager: the publisher.  One action runs    *)
(* the coroutine from one await of the HTTP client to the next.            *)
(***************************************************************************)
\* if not GITHUB_TOKEN, the guard of each GitHubManager step
TokenMissing == ~ GITHUB_TOKEN

\* pr_title and pr_body of deploy_to_github
PrTitle(j) == << "T", "e", "r", "r", "a", "f", "o", "r", "m", ":", " " >> \o j.instruction
PrBody(j) ==
    [ instruction |-> j.instruction,
      type        |-> j.config.resource_type,
      environment |-> j.config.environment,
      region      |-> j.config.region,
      files       |-> FileNames(j.files) ]

\* the call is sent: it is awaited and counted
Issue(r, call) ==
    /\ inflight' = [ inflight EXCEPT ![r] = call ]
    /\ calls' = [ calls EXCEPT ![r] = Append(@, CallEntry(call)) ]

\* as Finish, but the client is left open
Finish_no_close(r, s, msgs) ==
    /\ pc' = [ pc EXCEPT ![r] = s ]
    /\ logs' = [ logs EXCEPT ![r] = @ \o msgs ]
    /\ closed' = closed
    /\ inflight' = [ inflight EXCEPT ![r] = NoCall ]

\* deploy_to_github returns in state s after logging msgs: the finally clause
\* closes the client
Finish(r, s, msgs) ==
    /\ pc' = [ pc EXCEPT ![r] = s ]
    /\ logs' = [ logs EXCEPT ![r] = @ \o msgs ]
    /\ closed' = [ closed EXCEPT ![r] = @ + 1 ]
    /\ inflight' = [ inflight EXCEPT ![r] = NoCall ]

\* as CommitFrom, but commit_files returns True after its first item
CommitFrom_return_in_loop(r, i) ==
    IF i <= Len(job[r].files) /\ i <= 1
    THEN /\ Issue(r, GetFile(job[r].branch_name, job[r].files[i].name))
         /\ pc' = [ pc EXCEPT ![r] = "await_get" ]
         /\ idx' = [ idx EXCEPT ![r] = i ]
         /\ UNCHANGED << logs, closed >>
    ELSE /\ Issue(r, PostPull(job[r].branch_name, PrTitle(job[r]), PrBody(job[r])))
         /\ pc' = [ pc EXCEPT ![r] = "await_pr" ]
         /\ UNCHANGED << idx, logs, closed >>

\* commit_files reaches item i of files.items(): the existence check of that
\* file is sent, or, past the last item, commit_files returns True and
\* deploy_to_github goes on to create_pull_request
CommitFrom(r, i) ==
    IF i <= Len(job[r].files)
    THEN /\ Issue(r, GetFile(job[r].branch_name, job[r].files[i].name))
         /\ pc' = [ pc EXCEPT ![r] = "await_get" ]
         /\ idx' = [ idx EXCEPT ![r] = i ]
         /\ UNCHANGED << logs, closed >>
    ELSE IF TokenMissing
    THEN /\ Finish(r, "pr_create_failed",
                   << "WARNING GitHub token not configured, skipping PR creation",
                      "ERROR Failed to create pull request" >>)
         /\ UNCHANGED << calls, idx >>
    ELSE /\ Issue(r, PostPull(job[r].branch_name, PrTitle(job[r]), PrBody(job[r])))
         /\ pc' = [ pc EXCEPT ![r] = "await_pr" ]
         /\ UNCHANGED << idx, logs, closed >>

\* as start_deploy, but a job starts only while no other job awaits a call
start_deploy_serial(r) ==
    /\ pc[r] = "scheduled"
    /\ \A q \in DOMAIN pc \ { r } : inflight[q] = NoCall
    /\ IF TokenMissing
       THEN /\ Finish(r, "branch_create_failed",
                      << "WARNING GitHub token not configured, skipping branch creation",
                         "ERROR Failed to create branch" >>)
            /\ UNCHANGED calls
       ELSE /\ Issue(r, GetMainRef)
            /\ pc' = [ pc EXCEPT ![r] = "await_main" ]
            /\ UNCHANGED << logs, closed >>
    /\ UNCHANGED << GITHUB_TOKEN, GITHUB_OWNER, GCP_PROJECT_ID, clock, origin, response,
                    job, idx, refCreated, written, host, pIn, pOut, gOut, answer, req >>

\* deploy_to_github starts: GitHubManager(), then create_branch up to its
\* read of the head of main
start_deploy(r) ==
    /\ pc[r] = "scheduled"
    /\ IF TokenMissing
       THEN /\ Finish(r, "branch_create_failed",
                      << "WARNING GitHub token not configured, skipping branch creation",
                         "ERROR Failed to create branch" >>)
            /\ UNCHANGED calls
       ELSE /\ Issue(r, GetMainRef)
            /\ pc' = [ pc EXCEPT ![r] = "await_main" ]
            /\ UNCHANGED << logs, closed >>
    /\ UNCHANGED << GITHUB_TOKEN, GITHUB_OWNER, GCP_PROJECT_ID, clock, origin, response,
                    job, idx, refCreated, written, host, pIn, pOut, gOut, answer, req >>

\* create_branch: the read of main answers 200 with its hash, answers another
\* status, or raises (a body without the hash raises as well)
main_response(r) ==
    /\ pc[r] = "await_main"
    /\ \E status \in { "200", "404", "raise" } :
         IF status = "200"
         THEN /\ \E main_sha \in Shas :
                   /\ Issue(r, PostRef(job[r].branch_name, main_sha))
                   /\ answer' = [ answer EXCEPT ![r] =
                                    Received(inflight[r], status, main_sha) ]
              /\ pc' = [ pc EXCEPT ![r] = "await_ref" ]
              /\ UNCHANGED << logs, closed >>
         ELSE /\ Finish(r, "branch_create_failed",
                        << IF status = "raise" THEN "ERROR Error creating branch"
                                               ELSE "ERROR Failed to get main branch",
                           "ERROR Failed to create branch" >>)
              /\ answer' = [ answer EXCEPT ![r] = Received(inflight[r], status, "") ]
              /\ UNCHANGED calls
    /\ UNCHANGED << GITHUB_TOKEN, GITHUB_OWNER, GCP_PROJECT_ID, clock, origin, response,
                    job, idx, refCreated, written, host, pIn, pOut, gOut, req >>

\* as BranchCreated, but any answer of the host counts as a created branch
BranchCreated_any_answer(status) == status # "raise"

\* as BranchCreated, but a rejected create-ref call counts as well
BranchCreated_if_exists(status) == status \in { "201", "422" }

\* return branch_response.status_code == 201
BranchCreated(status) == status = "201"

\* create_branch: the create-ref call answers; the host creates a ref only when
\* none of that name exists. On True deploy_to_github enters commit_files.
branch_response(r) ==
    /\ pc[r] = "await_ref"
    /\ \E status \in { "201", "422", "raise" } :
         /\ status = "201" => inflight[r].ref \notin host.refs
         /\ host' = IF status = "201"
                    THEN [ host EXCEPT !.refs = @ \cup { inflight[r].ref } ]
                    ELSE host
         /\ refCreated' = [ refCreated EXCEPT ![r] = (status = "201") ]
         /\ answer' = [ answer EXCEPT ![r] = Received(inflight[r], status, "") ]
         /\ IF BranchCreated(status)
            THEN IF TokenMissing
                 THEN /\ Finish(r, "commit_failed",
                           << "WARNING GitHub token not configured, skipping file commit",
                              "ERROR Failed to commit files to branch" >>)
                      /\ UNCHANGED << calls, idx >>
                 ELSE CommitFrom(r, 1)
            ELSE /\ Finish(r, "branch_create_failed",
                        IF status = "raise"
                        THEN << "ERROR Error creating branch", "ERROR Failed to create branch" >>
                        ELSE << "ERROR Failed to create branch" >>)
                 /\ UNCHANGED << calls, idx >>
    /\ UNCHANGED << GITHUB_TOKEN, GITHUB_OWNER, GCP_PROJECT_ID, clock, origin, response,
                    job, written, pIn, pOut, gOut, req >>

\* as CommitAborted, but the branch is deleted before deploy_to_github returns
CommitAborted_rollback(r) ==
    /\ pc' = [ pc EXCEPT ![r] = "commit_failed" ]
    /\ logs' = [ logs EXCEPT ![r] = @ \o << "ERROR Error committing files",
                                            "ERROR Failed to commit files to branch" >> ]
    /\ closed' = [ closed EXCEPT ![r] = @ + 1 ]
    /\ inflight' = [ inflight EXCEPT ![r] = NoCall ]
    /\ calls' = [ calls EXCEPT ![r] = Append(@, [ op |-> "DELETE_REF", path |-> "" ]) ]
    /\ UNCHANGED idx

\* commit_files gives up: its except clause logs and returns False, and
\* deploy_to_github logs and returns
CommitAborted(r) ==
    /\ Finish(r, "commit_failed",
              << "ERROR Error committing files", "ERROR Failed to commit files to branch" >>)
    /\ UNCHANGED << calls, idx >>

\* _create_or_update_file: the existence check answers; on 200 the write
\* carries the hash of that answer, on another status it carries none
file_response(r) ==
    /\ pc[r] = "await_get"
    /\ \E status \in { "200", "404", "raise" } :
         IF status = "raise"
         THEN /\ CommitAborted(r)
              /\ answer' = [ answer EXCEPT ![r] = Received(inflight[r], status, "") ]
         ELSE /\ \E sha \in (IF status = "200" THEN Shas ELSE { "" }) :
                   /\ Issue(r, PutFile(job[r].branch_name, inflight[r].path,
                                       IF status = "200" THEN sha ELSE ""))
                   /\ answer' = [ answer EXCEPT ![r] = Received(inflight[r], status, sha) ]
              /\ pc' = [ pc EXCEPT ![r] = "await_put" ]
              /\ UNCHANGED << idx, logs, closed >>
    /\ UNCHANGED << GITHUB_TOKEN, GITHUB_OWNER, GCP_PROJECT_ID, clock, origin, response,
                    job, refCreated, written, host, pIn, pOut, gOut, req >>

\* as NextItem, but a rejected write is tried again
NextItem_retry(i, status) == IF status = "422" THEN i ELSE i + 1

\* the for loop of commit_files: the item after item i, whatever the write answered
NextItem(i, status) == i + 1

\* _create_or_update_file: the write answers; its status is not looked at, and
\* the loop of commit_files goes on to the next file
put_response(r) ==
    /\ pc[r] = "await_put"
    /\ \E status \in { "201", "422", "raise" } :
         /\ host' = IF status = "201"
                    THEN [ host EXCEPT !.files = @ \cup { << inflight[r].ref, inflight[r].path >> } ]
                    ELSE host
         /\ written' = IF status = "201"
                       THEN [ written EXCEPT ![r] = @ \cup { inflight[r].path } ]
                       ELSE written
         /\ answer' = [ answer EXCEPT ![r] = Received(inflight[r], status, "") ]
         /\ IF status = "raise"
            THEN CommitAborted(r)
            ELSE CommitFrom(r, NextItem(idx[r], status))
    /\ UNCHANGED << GITHUB_TOKEN, GITHUB_OWNER, GCP_PROJECT_ID, clock, origin, response,
                    job, refCreated, pIn, pOut, gOut, req >>

\* as KeepResponse, but the pull request of a 201 answer is reported back
KeepResponse_report_pr(r, status) ==
    response' = IF status = "201" /\ response[r].status = "200"
                THEN [ response EXCEPT ![r].pr_url = "https://github.com/pull/1" ]
                ELSE response

\* deploy_to_github, lines 629-633: pr_url is logged and dropped; the response
\* of the caller is out of reach of the job
KeepResponse(r, status) == UNCHANGED response

\* create_pull_request: the call answers; the host opens one pull request per
\* head. deploy_to_github logs the outcome and returns.
pr_response(r) ==
    /\ pc[r] = "await_pr"
    /\ \E status \in { "201", "422", "raise" } :
         /\ status = "201" => inflight[r].ref \notin host.pulls
         /\ host' = IF status = "201"
                    THEN [ host EXCEPT !.pulls = @ \cup { inflight[r].ref } ]
                    ELSE host
         /\ KeepResponse(r, status)
         /\ answer' = [ answer EXCEPT ![r] = Received(inflight[r], status, "") ]
         /\ IF status = "201"
            THEN Finish(r, "pr_opened", << "INFO Created PR" >>)
            ELSE Finish(r, "pr_create_failed",
                        << IF status = "raise" THEN "ERROR Error creating pull request"
                                               ELSE "ERROR Failed to create PR",
                           "ERROR Failed to create pull request" >>)
    /\ UNCHANGED << GITHUB_TOKEN, GITHUB_OWNER, GCP_PROJECT_ID, clock, origin, job, idx,
                    calls, refCreated, written, pIn, pOut, gOut, req >>

Next ==
    \/ Tick
    \/ \E r \in Callers :
         \/ generate_terraform(r)
         \/ direct_deploy(r)
         \/ start_deploy(r)
         \/ main_response(r)
         \/ branch_response(r)
         \/ file_response(r)
         \/ put_response(r)
         \/ pr_response(r)

Spec == Init /\ [][Next]_vars

(***************************************************************************)
(* Two generate requests whose jobs have the same branch name, with hosting *)
(* configured.  Each deploy_to_github builds its own GitHubManager; the     *)
(* jobs meet on the host only.                                              *)
(***************************************************************************)
Jobs == { 1, 2 }

InitJobs ==
    /\ \E env \in { e \in ENVIRONMENTS : e.token /\ e.owner /\ e.project # "" } :
         /\ GITHUB_TOKEN = env.token
         /\ GITHUB_OWNER = env.owner
         /\ GCP_PROJECT_ID = env.project
    /\ clock = 0
    /\ origin = [ r \in Jobs |-> "none" ]
    /\ response = [ r \in Jobs |-> NoResponse ]
    /\ job = [ r \in Jobs |-> NoJob ]
    /\ pc = [ r \in Jobs |-> "none" ]
    /\ idx = [ r \in Jobs |-> 0 ]
    /\ inflight = [ r \in Jobs |-> NoCall ]
    /\ calls = [ r \in Jobs |-> << >> ]
    /\ logs = [ r \in Jobs |-> << >> ]
    /\ closed = [ r \in Jobs |-> 0 ]
    /\ refCreated = [ r \in Jobs |-> FALSE ]
    /\ written = [ r \in Jobs |-> {} ]
    /\ \E refs \in SUBSET SampleRefs : host = [ refs |-> refs, files |-> {}, pulls |-> {} ]
    /\ pIn = << >>
    /\ pOut = NoDescription
    /\ gOut = << >>
    /\ answer = [ r \in Jobs |-> NoAnswer ]
    /\ req = [ r \in Jobs |-> NoRequest ]

\* a generate request for an instruction of no family, handled within the
\* second it arrives in, whose branch name, given or derived, is the one of the
\* job scheduled before, if there is one
same_branch_request(r) ==
    /\ generate_terraform(r)
    /\ req'[r].instruction = << "d", "b" >>
    /\ clock' = clock
    /\ \A q \in Jobs \ { r } : job[q] # NoJob => job'[r].branch_name = job[q].branch_name

\* a step of deploy_to_github for caller r
JobStep(r) ==
    \/ start_deploy(r)
    \/ main_response(r)
    \/ branch_response(r)
    \/ file_response(r)
    \/ put_response(r)
    \/ pr_response(r)

\* the two requests arrive within one second
NextJobs ==
    \E r \in Jobs :
        \/ same_branch_request(r)
        \/ start_deploy(r)
        \/ main_response(r)
        \/ branch_response(r)
        \/ file_response(r)
        \/ put_response(r)
        \/ pr_response(r)

SpecJobs == InitJobs /\ [][NextJobs]_vars

\* the event loop runs every coroutine that can go on, and the calls of job 2
\* return or raise; job 1 may hang in any of its calls for ever
SpecJobsLive == SpecJobs /\ WF_vars(JobStep(2))

\* one job, every call of which returns or raises in the end
SpecLive == Spec /\ \A r \in Callers : WF_vars(JobStep(r))

(***************************************************************************)
(* The parser on its own: an instruction is drawn, then parsed.            *)
(***************************************************************************)
\* words of the instructions fed to the parser
Vocabulary ==
    { << "V", "M" >>,
      << "i", "n", "s", "t", "a", "n", "c", "e" >>,
      << "c", "o", "m", "p", "u", "t", "e" >>,
      << "w", "e", "b", "-", "s", "e", "r", "v", "e", "r" >>,
      << "b", "u", "c", "k", "e", "t" >>,
      << "s", "t", "o", "r", "a", "g", "e" >>,
      << "b", "l", "o", "b" >>,
      << "n", "e", "t", "w", "o", "r", "k" >>,
      << "v", "p", "c" >>,
      << "s", "u", "b", "n", "e", "t" >>,
      << "d", "b" >>,
      << "n", "a", "m", "e", "d" >> }

\* the instructions of at most MaxWords words, single spaces between the words
Instructions ==
    { join(ws) : ws \in UNION { [ 1 .. n -> Vocabulary ] : n \in 0 .. MaxWords } }

\* the parser reads GCP_PROJECT_ID only: the environments with hosting
\* configured, with and without a project, are enough
InitParse ==
    /\ \E env \in { e \in ENVIRONMENTS : e.token /\ e.owner } :
         /\ GITHUB_TOKEN = env.token
         /\ GITHUB_OWNER = env.owner
         /\ GCP_PROJECT_ID = env.project
    /\ clock = 0
    /\ origin = [ r \in Callers |-> "none" ]
    /\ response = [ r \in Callers |-> NoResponse ]
    /\ job = [ r \in Callers |-> NoJob ]
    /\ pc = [ r \in Callers |-> "none" ]
    /\ idx = [ r \in Callers |-> 0 ]
    /\ inflight = [ r \in Callers |-> NoCall ]
    /\ calls = [ r \in Callers |-> << >> ]
    /\ logs = [ r \in Callers |-> << >> ]
    /\ closed = [ r \in Callers |-> 0 ]
    /\ refCreated = [ r \in Callers |-> FALSE ]
    /\ written = [ r \in Callers |-> {} ]
    /\ host = [ refs |-> {}, files |-> {}, pulls |-> {} ]
    /\ pIn \in Instructions
    /\ pOut = NoDescription
    /\ gOut = << >>
    /\ answer = [ r \in Callers |-> NoAnswer ]
    /\ req = [ r \in Callers |-> NoRequest ]

\* KAgent.parse_instruction(pIn) is called; t1 is the clock reading of
\* _extract_name
parse_call ==
    /\ pOut = NoDescription
    /\ \E t1 \in clock .. MaxClock :
         /\ pOut' = parse_instruction(pIn, GCP_PROJECT_ID, clock, t1)
         /\ clock' = t1
    /\ UNCHANGED << GITHUB_TOKEN, GITHUB_OWNER, GCP_PROJECT_ID, origin, response, job, pc,
                    idx, inflight, calls, logs, closed, refCreated, written, host, pIn,
                    gOut, answer, req >>

NextParse == Tick \/ parse_call

SpecParse == InitParse /\ [][NextParse]_vars

(***************************************************************************)
(* The parser on instructions chosen for the name and for the sizes.       *)
(***************************************************************************)
\* the start of the parser on its own, on one of the given instructions
InitOn(instructions) ==
    /\ \E env \in { e \in ENVIRONMENTS : e.token /\ e.owner } :
         /\ GITHUB_TOKEN = env.token
         /\ GITHUB_OWNER = env.owner
         /\ GCP_PROJECT_ID = env.project
    /\ clock = 0
    /\ origin = [ r \in Callers |-> "none" ]
    /\ response = [ r \in Callers |-> NoResponse ]
    /\ job = [ r \in Callers |-> NoJob ]
    /\ pc = [ r \in Callers |-> "none" ]
    /\ idx = [ r \in Callers |-> 0 ]
    /\ inflight = [ r \in Callers |-> NoCall ]
    /\ calls = [ r \in Callers |-> << >> ]
    /\ logs = [ r \in Callers |-> << >> ]
    /\ closed = [ r \in Callers |-> 0 ]
    /\ refCreated = [ r \in Callers |-> FALSE ]
    /\ written = [ r \in Callers |-> {} ]
    /\ host = [ refs |-> {}, files |-> {}, pulls |-> {} ]
    /\ pIn \in instructions
    /\ pOut = NoDescription
    /\ gOut = << >>
    /\ answer = [ r \in Callers |-> NoAnswer ]
    /\ req = [ r \in Callers |-> NoRequest ]

\* the instructions of a family word followed by at most MaxWords of the words
WordsAfter(families, words) ==
    { join(<< f >> \o ws) :
        f \in families, ws \in UNION { [ 1 .. n -> words ] : n \in 0 .. MaxWords } }

\* one word of each family
FamilyWords ==
    { << "V", "M" >>,
      << "b", "u", "c", "k", "e", "t" >>,
      << "v", "p", "c" >> }

\* words around a display name: the two markers, in either case, and tokens
\* that may follow them
NameVocabulary ==
    { << "n", "a", "m", "e", "d" >>,
      << "C", "a", "l", "l", "e", "d" >>,
      << "W", "e", "b", "-", "1" >>,
      << "9", "x" >>,
      << "a", ".", "b" >> }

\* "Create a small Ubuntu VM named web-server"
ExampleInstruction ==
    << "C", "r", "e", "a", "t", "e", " ", "a", " ", "s", "m", "a", "l", "l", " ",
       "U", "b", "u", "n", "t", "u", " ", "V", "M", " ", "n", "a", "m", "e", "d", " ",
       "w", "e", "b", "-", "s", "e", "r", "v", "e", "r" >>

NameInstructions == { ExampleInstruction } \cup WordsAfter(FamilyWords, NameVocabulary)

InitName == InitOn(NameInstructions)

SpecName == InitName /\ [][NextParse]_vars

\* words about the machine size and the disk size
SizeVocabulary ==
    { << "1", "0", "0", "G", "B" >>,
      << "2", "T", "B" >>,
      << "5" >>,
      << "g", "b" >>,
      << "l", "a", "r", "g", "e" >>,
      << "m", "e", "d", "i", "u", "m" >>,
      << "s", "m", "a", "l", "l" >> }

SizeInstructions == WordsAfter({ << "V", "M" >> }, SizeVocabulary)

InitSize == InitOn(SizeInstructions)

SpecSize == InitSize /\ [][NextParse]_vars

(***************************************************************************)
(* The generator on its own: an instruction is parsed, then                *)
(* TerraformGenerator.generate_files is called on the description, or on   *)
(* a description that lacks one field, at most MaxCalls times.             *)
(***************************************************************************)
\* instructions of no family (the empty one among them) and of each family
GenInstructions ==
    { << >>,
      << "d", "b" >>,
      << "w", "e", "b", " ", "s", "e", "r", "v", "e", "r" >>,
      << "b", "u", "c", "k", "e", "t" >>,
      << "v", "p", "c" >> }

\* fields a description handed to generate_files may lack, as
\* SAMPLE_STORAGE_CONFIG lacks zone
MissingFields == { "zone", "instruction", "environment", "resource_name" }

\* config without the key f
Without(config, f) == [ k \in DOMAIN config \ { f } |-> config[k] ]

\* the descriptions a caller may hand over, given the parsed one
GenInputs(config) == { config } \cup { Without(config, f) : f \in MissingFields }

InitGen == InitOn(GenInstructions)

\* TerraformGenerator.generate_files(config) is called now
generate_call ==
    /\ pOut # NoDescription
    /\ Len(gOut) < MaxCalls
    /\ \E config \in GenInputs(pOut) :
         gOut' = Append(gOut, [ config |-> config,
                                result |-> generate_files(config, clock) ])
    /\ UNCHANGED << GITHUB_TOKEN, GITHUB_OWNER, GCP_PROJECT_ID, clock, origin, response,
                    job, pc, idx, inflight, calls, logs, closed, refCreated, written,
                    host, pIn, pOut, answer, req >>

NextGen == Tick \/ parse_call \/ generate_call

SpecGen == InitGen /\ [][NextGen]_vars

(***************************************************************************)
(* The generator on the descriptions shipped with the tests.               *)
(***************************************************************************)
\* tests/fixtures/sample_configs.py
SAMPLE_VM_CONFIG ==
    [ resource_type |-> "gcp_vm",
      resource_name |-> "web_server",
      instance_name |-> "web-server-01",
      machine_type  |-> "e2-standard-2",
      image         |-> "ubuntu-os-cloud/ubuntu-2004-lts",
      disk_size     |-> 50,
      zone          |-> "us-central1-a",
      project_id    |-> "my-gcp-project",
      region        |-> "us-central1",
      environment   |-> "production",
      timestamp     |-> "20240101120000",
      metadata      |-> "enable-oslogin = \"true\"",
      tags          |-> "[\"web-server\", \"production\"]",
      instruction   |-> "Create a medium Ubuntu web server" ]

SAMPLE_STORAGE_CONFIG ==
    [ resource_type |-> "gcp_storage",
      resource_name |-> "backup_bucket",
      bucket_name   |-> "my-backup-bucket-12345",
      location      |-> "EU",
      versioning    |-> "true",
      project_id    |-> "my-gcp-project",
      region        |-> "europe-west1",
      environment   |-> "production",
      timestamp     |-> "20240101120000",
      instruction   |-> "Create a backup storage bucket in Europe" ]

SAMPLE_NETWORK_CONFIG ==
    [ resource_type       |-> "gcp_network",
      resource_name       |-> "prod_network",
      network_name        |-> "production-vpc",
      auto_create_subnets |-> "false",
      cidr_range          |-> "10.0.0.0/16",
      region              |-> "us-central1",
      allowed_ports       |-> "[\"22\", \"80\", \"443\"]",
      source_ranges       |-> "[\"0.0.0.0/0\"]",
      target_tags         |-> "[\"web-server\"]",
      project_id          |-> "my-gcp-project",
      environment         |-> "production",
      timestamp           |-> "20240101120000",
      instruction         |-> "Create a production VPC network" ]

\* tests/__init__.py
sample_terraform_config ==
    [ resource_type |-> "gcp_vm",
      resource_name |-> "test_vm",
      instance_name |-> "test-vm",
      machine_type  |-> "e2-micro",
      image         |-> "debian-cloud/debian-11",
      disk_size     |-> 20,
      zone          |-> "us-central1-a",
      project_id    |-> "test-project",
      region        |-> "us-central1",
      environment   |-> "test",
      timestamp     |-> "20240101120000",
      metadata      |-> "startup-script = \"echo Hello\"",
      tags          |-> "[\"test\"]",
      instruction   |-> "Create a test VM" ]

Samples ==
    { SAMPLE_VM_CONFIG, SAMPLE_STORAGE_CONFIG, SAMPLE_NETWORK_CONFIG,
      sample_terraform_config }

\* a test hands one of the samples to the generator
InitSample ==
    /\ \E env \in ENVIRONMENTS :
         /\ GITHUB_TOKEN = env.token
         /\ GITHUB_OWNER = env.owner
         /\ GCP_PROJECT_ID = env.project
    /\ clock = 0
    /\ origin = [ r \in Callers |-> "none" ]
    /\ response = [ r \in Callers |-> NoResponse ]
    /\ job = [ r \in Callers |-> NoJob ]
    /\ pc = [ r \in Callers |-> "none" ]
    /\ idx = [ r \in Callers |-> 0 ]
    /\ inflight = [ r \in Callers |-> NoCall ]
    /\ calls = [ r \in Callers |-> << >> ]
    /\ logs = [ r \in Callers |-> << >> ]
    /\ closed = [ r \in Callers |-> 0 ]
    /\ refCreated = [ r \in Callers |-> FALSE ]
    /\ written = [ r \in Callers |-> {} ]
    /\ host = [ refs |-> {}, files |-> {}, pulls |-> {} ]
    /\ pIn = << >>
    /\ pOut \in Samples
    /\ gOut = << >>
    /\ answer = [ r \in Callers |-> NoAnswer ]
    /\ req = [ r \in Callers |-> NoRequest ]

\* TerraformGenerator.generate_files(pOut) is called now
generate_sample ==
    /\ Len(gOut) < MaxCalls
    /\ gOut' = Append(gOut, [ config |-> pOut, result |-> generate_files(pOut, clock) ])
    /\ UNCHANGED << GITHUB_TOKEN, GITHUB_OWNER, GCP_PROJECT_ID, clock, origin, response,
                    job, pc, idx, inflight, calls, logs, closed, refCreated, written,
                    host, pIn, pOut, answer, req >>

NextSample == Tick \/ generate_sample

SpecSample == InitSample /\ [][NextSample]_vars

(***************************************************************************)
(* Vocabulary of the properties.                                           *)
(***************************************************************************)
\* the operations of the calls caller r has issued
Ops(r) == { calls[r][k].op : k \in DOMAIN calls[r] }

\* deploy_to_github of caller r has returned
Terminal(r) ==
    pc[r] \in { "branch_create_failed", "commit_failed", "pr_opened", "pr_create_failed" }

\* the calls of steps 2 and 3 that caller r has issued
Step23Calls(r) ==
    { k \in DOMAIN calls[r] : calls[r][k].op \in { "GET_FILE", "PUT_FILE", "POST_PULL" } }

\* the job of caller r is past step 1 and the host did not create its branch
BranchCreationFailed(r) ==
    /\ pc[r] \notin { "none", "scheduled", "await_main", "await_ref" }
    /\ ~ refCreated[r]

\* every file of the job of caller r has had its write sent
AllWritesAttempted(r) ==
    \A i \in DOMAIN job[r].files :
        [ op |-> "PUT_FILE", path |-> job[r].files[i].name ] \in Range(calls[r])

\* the step a call belongs to, and its place within step 1
Rank(op) ==
    CASE op = "GET_REF"   -> 1
      [] op = "POST_REF"  -> 2
      [] op = "POST_PULL" -> 4
      [] OTHER            -> 3

\* the state of a PublishJob, from where deploy_to_github stands
JobStateOf(p) ==
    CASE p \in { "none", "scheduled", "await_main", "await_ref" } -> "pending"
      [] p \in { "await_get", "await_put" }                       -> "branch_created"
      [] p = "await_pr"                                           -> "files_committed"
      [] OTHER                                                    -> p

\* s contains a keyword of ks, case ignored
HasKeyword(s, ks) == ContainsAny(lower(s), ks)

\* the display name of a description of a family
DisplayName(config) ==
    CASE config.resource_type = "gcp_vm"      -> config.instance_name
      [] config.resource_type = "gcp_storage" -> config.bucket_name
      [] config.resource_type = "gcp_network" -> config.network_name

\* the default display name of a family
FamilyDefault(resource_type) ==
    CASE resource_type = "gcp_vm"      -> DEFAULT_VM_NAME
      [] resource_type = "gcp_storage" -> DEFAULT_BUCKET_NAME
      [] resource_type = "gcp_network" -> DEFAULT_NETWORK_NAME

\* pOut is the description of a family
ParsedInto(families) == pOut # NoDescription /\ pOut.resource_type \in families

\* s is an identifier: letters, digits and underscores, no digit first
IsIdentifier(s) ==
    /\ s # << >>
    /\ \A i \in DOMAIN s : s[i] \in Range(Uppers) \cup Range(Lowers) \cup Range(Digits) \cup { "_" }
    /\ ~ IsDigit(s[1])

\* the matches of <integer><optional space>(gb|tb) in s, each as the
\* positions of its first digit, of its last digit and of its unit
DiskMatches(s) ==
    UNION { UNION { { << i, e, u >> : u \in { v \in (e + 1) .. (Len(s) - 1) :
                                               /\ \A j \in (e + 1) .. (v - 1) : IsSpace(s[j])
                                               /\ << s[v], s[v + 1] >> \in { W_gb, W_tb } } } :
                    e \in { f \in i .. Len(s) : \A j \in i .. f : IsDigit(s[j]) } } :
            i \in 1 .. Len(s) }

\* how often x occurs in the sequence s
Count(s, x) == Cardinality({ i \in DOMAIN s : s[i] = x })

\* the records that tell of a skipped step
SkipLogs ==
    { "WARNING GitHub token not configured, skipping branch creation",
      "WARNING GitHub token not configured, skipping file commit",
      "WARNING GitHub token not configured, skipping PR creation" }

\* the records that tell of a failure
ErrorLogs ==
    { "ERROR Error creating branch", "ERROR Failed to get main branch",
      "ERROR Failed to create branch", "ERROR Error committing files",
      "ERROR Failed to commit files to branch", "ERROR Error creating pull request",
      "ERROR Failed to create PR", "ERROR Failed to create pull request" }

\* the keywords of the three families
AllKeywords == VM_KEYWORDS \cup STORAGE_KEYWORDS \cup NETWORK_KEYWORDS

\* the names of the four supporting files
SupportingFiles == { "provider.tf", "variables.tf", "terraform.tfvars", "README.md" }

\* the fields referred to by what generate_files renders for config: the
\* provider template, the main template of its family, the variable files and
\* the summary
ReferencedFields(config) ==
    TERRAFORM_TEMPLATES["provider"]
    \cup (IF "resource_type" \in DOMAIN config
             /\ config["resource_type"] \in DOMAIN TERRAFORM_TEMPLATES
          THEN TERRAFORM_TEMPLATES[config["resource_type"]] ELSE {})
    \cup REQUIRED_BY_HELPERS
    \cup { "instruction" }

(***************************************************************************)
(* Properties.                                                             *)
(***************************************************************************)
\* C1: when branch creation fails for any reason (token missing, main not
\* readable, create-ref not answered 201, a call raising), the job issues no
\* file existence check, no file write and no pull-request call.
C1_NoStep23AfterBranchFailure ==
    \A r \in Callers : BranchCreationFailed(r) => Step23Calls(r) = {}

\* C1 witness: a job has ended after its create-ref call was sent and not
\* answered 201.
C1_Witness ==
    \E r \in Callers :
        /\ pc[r] = "branch_create_failed"
        /\ "POST_REF" \in Ops(r)

\* C2, as claimed: when GITHUB_TOKEN or GITHUB_OWNER is missing, a publisher
\* run issues no remote call at all.
C2_NoCallsWhenUnconfigured ==
    \A r \in Callers : ~ HostingConfigured => calls[r] = << >>

\* C3: the calls of a job are ordered by step: main is read before the ref is
\* created, the ref has been created before any file call, every file has had
\* its write sent before the pull-request call, and the one call in flight is
\* the last one issued.
C3_StepOrder ==
    \A r \in Callers :
        /\ \A i, j \in DOMAIN calls[r] :
               i < j => Rank(calls[r][i].op) <= Rank(calls[r][j].op)
        /\ "POST_REF" \in Ops(r) => "GET_REF" \in Ops(r)
        /\ Ops(r) \cap { "GET_FILE", "PUT_FILE", "POST_PULL" } # {} => refCreated[r]
        /\ "POST_PULL" \in Ops(r) => AllWritesAttempted(r)
        /\ inflight[r] # NoCall => CallEntry(inflight[r]) = calls[r][Len(calls[r])]

\* C3 witness: the pull-request call of a job with five files is in flight.
C3_Witness ==
    \E r \in Callers : pc[r] = "await_pr" /\ Len(job[r].files) = 5

\* C4, as claimed: whatever fails for one file (check or write, rejected or
\* raising), every file of the job gets its write attempt.
C4_EveryFileAttempted ==
    \A r \in Callers : refCreated[r] /\ Terminal(r) => AllWritesAttempted(r)

\* C5, as claimed: once the branch is created the job gets to the
\* pull-request call, whatever the file writes answer or raise.
C5_AlwaysReachesPullRequest ==
    \A r \in Callers : refCreated[r] /\ Terminal(r) => "POST_PULL" \in Ops(r)

\* the moves of the state machine of a PublishJob
ClaimedMoves ==
    { << "pending", "branch_created" >>, << "branch_created", "files_committed" >>,
      << "files_committed", "pr_opened" >>, << "pending", "branch_create_failed" >>,
      << "files_committed", "pr_create_failed" >> }

\* C6, as claimed: a job moves only along pending, branch_created,
\* files_committed, pr_opened, leaving that path only from pending to
\* branch_create_failed and from files_committed to pr_create_failed.
C6_OnlyClaimedMoves ==
    [][ \A r \in Callers :
          \/ JobStateOf(pc'[r]) = JobStateOf(pc[r])
          \/ << JobStateOf(pc[r]), JobStateOf(pc'[r]) >> \in ClaimedMoves ]_vars

\* C7: the publisher issues no call that deletes or resets anything, so the
\* branch it created and the files it wrote stay on the host, also after a
\* later failure.
C7_NoUndo ==
    \A r \in Callers :
        /\ Ops(r) \subseteq { "GET_REF", "POST_REF", "GET_FILE", "PUT_FILE", "POST_PULL" }
        /\ refCreated[r] => job[r].branch_name \in host.refs
        /\ \A path \in written[r] : << job[r].branch_name, path >> \in host.files

\* C7 witness: a job has ended without a pull request, its branch and a file
\* of it being on the host.
C7_Witness ==
    \E r \in Callers :
        /\ pc[r] \in { "commit_failed", "pr_create_failed" }
        /\ refCreated[r]
        /\ written[r] # {}

\* C8: no remote call is issued twice: the read of main, the create-ref call
\* and the pull-request call at most once, and per file one check and one
\* write at most.
C8_NoRetry ==
    \A r \in Callers :
        \A i, j \in DOMAIN calls[r] : calls[r][i] = calls[r][j] => i = j

\* C8 witness: a job has ended with a rejected pull-request call after a write
\* that the host did not accept.
C8_Witness ==
    \E r \in Callers :
        /\ pc[r] = "pr_create_failed"
        /\ Cardinality(written[r]) < Len(job[r].files)

\* C9: the response of a generate request is there before its job issues a
\* call and never changes afterwards; it is a success without pr_url.
C9_ResponseFixed ==
    [][ \A r \in Callers :
          /\ response[r].status # "none" => response'[r] = response[r]
          /\ origin'[r] = "generate" /\ calls'[r] # << >> =>
                /\ response[r].status = "200"
                /\ response[r].success
                /\ response[r].pr_url = "" ]_vars

\* C9 witness: the job of a generate request has ended after remote calls.
C9_Witness ==
    \E r \in Callers :
        /\ origin[r] = "generate"
        /\ pc[r] \in { "pr_opened", "branch_create_failed" }
        /\ calls[r] # << >>

\* C10: classification is first match wins in the order compute, storage,
\* network, and the description holds the base fields and the fields of that
\* one family.
C10_FirstMatchWins ==
    pOut # NoDescription =>
        /\ HasKeyword(pIn, VM_KEYWORDS) =>
              /\ pOut.resource_type = "gcp_vm"
              /\ DOMAIN pOut = BASE_FIELDS \cup VM_FIELDS
        /\ (~ HasKeyword(pIn, VM_KEYWORDS) /\ HasKeyword(pIn, STORAGE_KEYWORDS)) =>
              /\ pOut.resource_type = "gcp_storage"
              /\ DOMAIN pOut = BASE_FIELDS \cup STORAGE_FIELDS
        /\ (~ HasKeyword(pIn, VM_KEYWORDS \cup STORAGE_KEYWORDS)
              /\ HasKeyword(pIn, NETWORK_KEYWORDS)) =>
              /\ pOut.resource_type = "gcp_network"
              /\ DOMAIN pOut = BASE_FIELDS \cup NETWORK_FIELDS

\* C10 witness: an instruction with a compute keyword and a keyword of another
\* family has been parsed.
C10_Witness ==
    /\ pOut # NoDescription
    /\ HasKeyword(pIn, VM_KEYWORDS)
    /\ HasKeyword(pIn, STORAGE_KEYWORDS \cup NETWORK_KEYWORDS)

\* C11: an instruction without a keyword of any family, the empty one
\* included, is parsed into a description of type unknown that holds the base
\* fields only, and generating from that description succeeds with the four
\* supporting files and no main.tf.
C11_MissIsNotAnError ==
    (pOut # NoDescription /\ ~ HasKeyword(pIn, AllKeywords)) =>
        /\ pOut.resource_type = "unknown"
        /\ DOMAIN pOut = BASE_FIELDS
        /\ \A i \in DOMAIN gOut :
              gOut[i].config = pOut =>
                 /\ gOut[i].result.ok
                 /\ Len(gOut[i].result.files) = 4
                 /\ Range(FileNames(gOut[i].result.files)) = SupportingFiles

\* C11 witness: the empty instruction has been parsed and files have been
\* generated from its description.
C11_Witness ==
    /\ pIn = << >>
    /\ pOut # NoDescription
    /\ \E i \in DOMAIN gOut : gOut[i].config = pOut /\ gOut[i].result.ok

\* C12: every set of files that generate_files returns holds the four
\* supporting files, holds main.tf exactly when resource_type is not unknown,
\* and holds nothing else: the names follow from the family alone.
C12_FixedFileNames ==
    \A i \in DOMAIN gOut :
        gOut[i].result.ok =>
           LET names == Range(FileNames(gOut[i].result.files))
           IN  /\ SupportingFiles \subseteq names
               /\ "main.tf" \in names <=> gOut[i].config["resource_type"] # "unknown"
               /\ names \subseteq SupportingFiles \cup { "main.tf" }
               /\ Len(gOut[i].result.files) = Cardinality(names)

\* C12 witness: files have been generated for a description of a family.
C12_Witness ==
    \E i \in DOMAIN gOut :
        /\ gOut[i].result.ok
        /\ gOut[i].config["resource_type"] = "gcp_storage"
        /\ Len(gOut[i].result.files) = 5

\* C13, as claimed: two calls of generate_files on the same description, at
\* any two moments, return the same files with the same contents.
C13_GenerateIdempotent ==
    \A i, j \in DOMAIN gOut :
        gOut[i].config = gOut[j].config => gOut[i].result = gOut[j].result

\* C14, as claimed: when the description lacks a field that a template
\* rendered for it refers to (instruction, echoed by the summary, included),
\* generate_files returns no files.
C14_MissingFieldFailsLoudly ==
    \A i \in DOMAIN gOut :
        ~ (ReferencedFields(gOut[i].config) \subseteq DOMAIN gOut[i].config) =>
            ~ gOut[i].result.ok

\* C15, as claimed: the resource_name of a description of a family is an
\* identifier (letters, digits and underscores, no digit first), whatever
\* token follows the marker in the instruction.
C15_ResourceNameIsIdentifier ==
    ParsedInto({ "gcp_vm", "gcp_storage", "gcp_network" }) =>
        IsIdentifier(pOut.resource_name)

\* C16: for a compute instruction the disk size follows the leftmost match of
\* <integer><optional space>(gb|tb) in the lowercased instruction: the
\* integer for gb, 1024 times the integer for tb; it is 20 without a match.
C16_DiskSize ==
    ParsedInto({ "gcp_vm" }) =>
        /\ DiskMatches(lower(pIn)) = {} => pOut.disk_size = 20
        /\ \A m \in DiskMatches(lower(pIn)) :
              (\A n \in DiskMatches(lower(pIn)) : m[1] <= n[1]) =>
                 pOut.disk_size =
                    int(SubSeq(lower(pIn), m[1], m[2]))
                    * (IF << lower(pIn)[m[3]], lower(pIn)[m[3] + 1] >> = W_tb
                       THEN 1024 ELSE 1)
        /\ pIn = << "V", "M", " ", "1", "0", "0", "G", "B" >> => pOut.disk_size = 100
        /\ pIn = << "V", "M", " ", "2", "T", "B" >> => pOut.disk_size = 2048

\* C16 witness: an instruction with a tb size before a gb size has been parsed
\* into a disk size of 2048.
C16_Witness ==
    /\ pIn = << "V", "M", " ", "2", "T", "B", " ", "1", "0", "0", "G", "B" >>
    /\ ParsedInto({ "gcp_vm" })
    /\ pOut.disk_size = 2048

\* C17, as claimed: the machine type follows the rule order large, medium,
\* small: e2-standard-4 with "large", else e2-standard-2 with "medium" (also
\* next to "small"), else e2-micro.
C17_MachineTypeOrder ==
    ParsedInto({ "gcp_vm" }) =>
        pOut.machine_type =
            IF Contains(lower(pIn), W_large) THEN "e2-standard-4"
            ELSE IF Contains(lower(pIn), W_medium) THEN "e2-standard-2"
            ELSE "e2-micro"

\* C18: the display name is the lowercased token after the first token that
\* equals "named" or "called", case ignored, and is not the last token;
\* without such a token it is the default of the family, a hyphen and a
\* timestamp of the clock; the example instruction gives web-server.
C18_DisplayName ==
    ParsedInto({ "gcp_vm", "gcp_storage", "gcp_network" }) =>
        /\ \A i \in 1 .. (Len(split(pIn)) - 1) :
              (/\ lower(split(pIn)[i]) \in { W_named, W_called }
               /\ \A j \in 1 .. (i - 1) : lower(split(pIn)[j]) \notin { W_named, W_called })
              => DisplayName(pOut) = lower(split(pIn)[i + 1])
        /\ (\A i \in 1 .. (Len(split(pIn)) - 1) :
               lower(split(pIn)[i]) \notin { W_named, W_called })
              => \E t \in 0 .. clock :
                    DisplayName(pOut) =
                       FamilyDefault(pOut.resource_type) \o << "-" >> \o strftime(t)
        /\ pIn = ExampleInstruction =>
              DisplayName(pOut) = << "w", "e", "b", "-", "s", "e", "r", "v", "e", "r" >>

\* C18 witness: an instruction whose marker is written with a capital and is
\* followed by a token with capitals has been parsed.
C18_Witness ==
    /\ pIn = << "V", "M", " ", "C", "a", "l", "l", "e", "d", " ", "W", "e", "b", "-", "1" >>
    /\ ParsedInto({ "gcp_vm" })
    /\ pOut.instance_name = << "w", "e", "b", "-", "1" >>

\* C19, as claimed: when the hosting integration is not configured, a run of
\* the publisher logs the skip of each of its three steps exactly once and
\* logs no failure.
C19_SkipLoggedPerStep ==
    \A r \in Callers :
        (~ (GITHUB_TOKEN /\ GITHUB_OWNER) /\ Terminal(r)) =>
            /\ \A w \in SkipLogs : Count(logs[r], w) = 1
            /\ \A k \in DOMAIN logs[r] : logs[r][k] \notin ErrorLogs

\* C20: a generate request that succeeded has scheduled one job, for the
\* files and the branch of its response, when token and owner are both set,
\* and none otherwise; a request that failed has scheduled none; the message
\* of the response tells the two cases apart; the job runs once.
C20_OneJobWhenConfigured ==
    \A r \in Callers :
        origin[r] = "generate" =>
            /\ response[r].status = "200" =>
                  IF GITHUB_TOKEN /\ GITHUB_OWNER
                  THEN /\ pc[r] # "none"
                       /\ job[r] # NoJob
                       /\ job[r].files = response[r].terraform_files
                       /\ job[r].branch_name = response[r].branch_name
                       /\ response[r].message = MSG_IN_PROGRESS
                  ELSE /\ pc[r] = "none"
                       /\ job[r] = NoJob
                       /\ calls[r] = << >>
                       /\ response[r].message = MSG_NOT_CONFIGURED
            /\ response[r].status # "200" => pc[r] = "none" /\ job[r] = NoJob
            /\ closed[r] <= 1
            /\ Count(calls[r], CallEntry(GetMainRef)) <= 1

\* C20 witness: the job of a generate request, scheduled with token and owner
\* set, has run to its end.
C20_Witness ==
    \E r \in Callers :
        /\ origin[r] = "generate"
        /\ GITHUB_TOKEN /\ GITHUB_OWNER
        /\ response[r].message = MSG_IN_PROGRESS
        /\ Terminal(r)

\* C22: step 1 goes on to the create-ref call exactly when the read of main
\* answered 200, that call naming the branch of the job and carrying the hash
\* of that answer; otherwise no create-ref call is issued and the job ends.
\* Step 1 succeeds exactly when the create-ref call answered 201; a rejected
\* one (the ref exists) ends the job.
C22_BranchStep ==
    [][ \A r \in Callers :
          /\ (pc[r] = "await_main" /\ pc'[r] # "await_main") =>
                /\ pc'[r] = "await_ref" <=> answer'[r].status = "200"
                /\ pc'[r] = "await_ref" =>
                      /\ answer'[r].sha \in Shas
                      /\ inflight'[r] = [ NoCall EXCEPT !.op  = "POST_REF",
                                                        !.ref = job[r].branch_name,
                                                        !.sha = answer'[r].sha ]
                /\ pc'[r] # "await_ref" =>
                      /\ pc'[r] = "branch_create_failed"
                      /\ calls'[r] = calls[r]
          /\ (pc[r] = "await_ref" /\ pc'[r] # "await_ref") =>
                /\ pc'[r] = "await_get" <=> answer'[r].status = "201"
                /\ pc'[r] # "await_get" => pc'[r] = "branch_create_failed" ]_vars

\* C22 witness: the create-ref call of a job was rejected because the ref
\* exists, and the job has ended.
C22_Witness ==
    \E r \in Callers :
        /\ pc[r] = "branch_create_failed"
        /\ answer[r].op = "POST_REF"
        /\ answer[r].status = "422"
        /\ job[r].branch_name \in host.refs

\* C23: every write follows the existence check of the same file, both on
\* the branch of the job, and the write carries the hash of the check when
\* the check answered 200 and no hash otherwise.
C23_CheckBeforeWrite ==
    \A r \in Callers :
        /\ \A k \in DOMAIN calls[r] :
              calls[r][k].op = "PUT_FILE" =>
                 /\ k > 1
                 /\ calls[r][k - 1] = [ op |-> "GET_FILE", path |-> calls[r][k].path ]
        /\ pc[r] = "await_get" => inflight[r].ref = job[r].branch_name
        /\ pc[r] = "await_put" =>
              /\ answer[r].op = "GET_FILE"
              /\ answer[r].path = inflight[r].path
              /\ inflight[r].op = "PUT_FILE"
              /\ inflight[r].ref = job[r].branch_name
              /\ answer[r].status = "200" => answer[r].sha \in Shas
              /\ inflight[r].sha = IF answer[r].status = "200" THEN answer[r].sha ELSE ""

\* C23 witness: the write of a file that the check found is in flight.
C23_Witness ==
    \E r \in Callers :
        /\ pc[r] = "await_put"
        /\ answer[r].status = "200"
        /\ inflight[r].sha \in Shas

\* C24, as claimed: the pull request goes from the branch of the job to main
\* and every file name in its body is a file whose write the host accepted.
C24_BodyListsCommittedFiles ==
    \A r \in Callers :
        pc[r] = "await_pr" =>
            /\ inflight[r].ref = job[r].branch_name
            /\ Range(inflight[r].body.files) \subseteq written[r]

\* C25: the branch name of a generate request is the name the caller gave, or
\* without one terraform-<resource_type>-<timestamp> from the description;
\* the response returns that name and the job uses it for the ref it creates,
\* for every file check and write, and as head of the pull request.
C25_OneBranchName ==
    \A r \in Callers :
        origin[r] = "generate" =>
            /\ response[r].status = "200" =>
                  /\ req[r].branch_name # << >> =>
                        response[r].branch_name = req[r].branch_name
                  /\ req[r].branch_name = << >> =>
                        response[r].branch_name =
                           << "t", "e", "r", "r", "a", "f", "o", "r", "m", "-" >>
                           \o TypeText(req[r].config.resource_type)
                           \o << "-" >> \o req[r].config.timestamp
            /\ job[r] # NoJob => job[r].branch_name = response[r].branch_name
            /\ inflight[r].op \in { "POST_REF", "GET_FILE", "PUT_FILE", "POST_PULL" } =>
                  inflight[r].ref = response[r].branch_name

\* C25 witness: the pull-request call of a request without a branch name is
\* in flight.
C25_Witness ==
    \E r \in Callers :
        /\ origin[r] = "generate"
        /\ req[r].branch_name = << >>
        /\ pc[r] = "await_pr"

\* C21: a job that is scheduled reaches a terminal state, its request having
\* its response, also when the other job hangs for ever in a remote call: no
\* step of a job waits for the other job.
C21_OtherJobTerminates ==
    (pc[2] = "scheduled") ~> (Terminal(2) /\ response[2].status = "200")

\* C21 witness: job 2 has opened its pull request while the read of main of
\* job 1 is still awaited.
C21_Witness ==
    /\ pc[1] = "await_main"
    /\ inflight[1] # NoCall
    /\ pc[2] = "pr_opened"

\* C26: of two jobs with the same branch name at most one has its ref
\* created, so at most one issues file calls, writes files to the branch and
\* issues a pull-request call.
C26_OneJobPerBranch ==
    \A r, q \in Jobs :
        (r # q /\ job[r] # NoJob /\ job[q] # NoJob
           /\ job[r].branch_name = job[q].branch_name) =>
            /\ ~ (refCreated[r] /\ refCreated[q])
            /\ Step23Calls(r) = {} \/ Step23Calls(q) = {}
            /\ written[r] = {} \/ written[q] = {}
            /\ ~ ("POST_PULL" \in Ops(r) /\ "POST_PULL" \in Ops(q))

\* C26 witness: both jobs have ended, one after its pull-request call, the
\* other with its create-ref call rejected.
C26_Witness ==
    \E r, q \in Jobs :
        /\ "POST_PULL" \in Ops(r) /\ Terminal(r)
        /\ pc[q] = "branch_create_failed" /\ answer[q].op = "POST_REF"
        /\ answer[q].status = "422"
        /\ job[r].branch_name = job[q].branch_name

\* C27: a job whose calls each return or raise in the end terminates; its
\* client is closed exactly when deploy_to_github has returned, once, with no
\* call awaited, and no call is issued after that.
C27_ClosedExactlyOnce ==
    /\ [](\A r \in Callers :
            /\ Terminal(r) <=> closed[r] = 1
            /\ closed[r] <= 1
            /\ Terminal(r) => inflight[r] = NoCall)
    /\ [][ \A r \in Callers : closed[r] = 1 => calls'[r] = calls[r] ]_vars
    /\ \A r \in Callers : (pc[r] = "scheduled") ~> Terminal(r)

\* C27 witness: a job has ended after a file call that raised, its client
\* closed.
C27_Witness ==
    \E r \in Callers :
        /\ pc[r] = "commit_failed"
        /\ answer[r].status = "raise"
        /\ closed[r] = 1

\* C28, as claimed: a synthesized display name ends in the timestamp field of
\* its description, also when the clock advances during the parse.
C28_OneCreationInstant ==
    (/\ ParsedInto({ "gcp_vm", "gcp_storage", "gcp_network" })
     /\ \A i \in 1 .. (Len(split(pIn)) - 1) :
           lower(split(pIn)[i]) \notin { W_named, W_called })
    => DisplayName(pOut) =
          FamilyDefault(pOut.resource_type) \o << "-" >> \o pOut.timestamp

\* C29: the description parse_instruction returns holds every field that the
\* provider template and the main template of its resource_type refer to,
\* and generate_files succeeds on it.
C29_ParsedIsComplete ==
    pOut # NoDescription =>
        /\ TERRAFORM_TEMPLATES["provider"] \subseteq DOMAIN pOut
        /\ pOut.resource_type \in DOMAIN TERRAFORM_TEMPLATES =>
              TERRAFORM_TEMPLATES[pOut.resource_type] \subseteq DOMAIN pOut
        /\ \A i \in DOMAIN gOut : gOut[i].config = pOut => gOut[i].result.ok

\* C29 witness: files have been generated from the description parsed from
\* an instruction of the network family.
C29_Witness ==
    /\ ParsedInto({ "gcp_network" })
    /\ \E i \in DOMAIN gOut :
          /\ gOut[i].config = pOut
          /\ gOut[i].result.ok
          /\ Len(gOut[i].result.files) = 5

\* C30, as claimed: generate_files succeeds on each description shipped with
\* the tests and returns five files.
C30_SamplesGenerate ==
    \A i \in DOMAIN gOut :
        gOut[i].config \in Samples =>
            /\ gOut[i].result.ok
            /\ Len(gOut[i].result.files) = 5

====
